---- MODULE Spec2Model ----
(***************************************************************************)
(* Model of the Robotiq gripper controller RQGripper (src/RQGripper.py).  *)
(*                                                                         *)
(* One caller invokes the operations of one controller (Spec); LifeSpec    *)
(* adds the construction and the with-block of main(), ConcSpec a second   *)
(* caller on the same controller.  The register                            *)
(* channel (the vendor SDK's rm_write_registers and                        *)
(* rm_read_multiple_input_registers) is the environment: a write reports   *)
(* success, reports failure, or raises; a read returns a block or raises.  *)
(* Time is counted in ticks of 100 ms, the cadence of the wait loop.       *)
(***************************************************************************)
EXTENDS Integers, Sequences, FiniteSets, TLC

(* ----------------------------- bounds ---------------------------------- *)
\* largest caller-supplied timeout, in ticks
MaxTimeout == 2
\* the per-call read counter saturates here
MaxReads == 4
\* longest time one sleep(0.1) may take, in ticks
MaxSleep == 2
\* longest time one register read may take, in ticks
MaxReadTime == 1

\* the count of disconnect calls saturates here
MaxDisconnects == 2

\* the elapsed-time counter saturates above every timeout
MaxElapsed == MaxTimeout + 2

(* ----------------------------- inputs ---------------------------------- *)
\* position arguments, in and out of [0,255]
Positions == {-1, 0, 100, 255, 256}
\* position words the channel may return in block[1][4]
Readings == {0, 100, 101}
Speeds == {0, 255}
Forces == {0, 255}
\* status bytes the channel may return in block[1][0], in and out of range
StatusBytes == -1 .. 256
\* the timeout argument: <<>> is None, <<t>> is t ticks
Timeouts == {<<>>} \cup {<<t>> : t \in 0 .. MaxTimeout}
\* what a register write can do
WriteOutcomes == {"ok", "fail", "raise"}
\* what a register read can do: raise, or return a block
ReadOutcomes == {[raised |-> TRUE, status |-> 0, position |-> 0]}
                \cup {[raised |-> FALSE, status |-> b, position |-> q] :
                          b \in {0}, q \in Readings}
StatusReadOutcomes == {[raised |-> TRUE, status |-> 0, position |-> 0]}
                \cup {[raised |-> FALSE, status |-> b, position |-> 0] :
                          b \in StatusBytes}

(* ------------------------- pure helpers -------------------------------- *)
\* [mutant] speed and force in each other's word
CommandWord6Swapped(action, position, speed, force) ==
    <<action, 0, 0, position, force, speed>>

\* the 6-word command vector
CommandWord6(action, position, speed, force) ==
    <<action, 0, 0, position, speed, force>>

\* [mutant] the upper limit off by one
ValidPositionOffByOne(position) == 0 <= position /\ position <= 256

\* the argument check of go_to_position
ValidPosition(position) == 0 <= position /\ position <= 255

\* [mutant] every write that returns counted as a success
WriteResultReturned(o) == o # "raise"

\* the value a write hands back to the caller's code, as a truth value
WriteResult(o) == o = "ok"

\* all([result1, result2])
ActivateResult(o1, o2) == WriteResult(o1) /\ WriteResult(o2)

\* [mutant] the enable write skipped when the clear write reported failure
ActivateWritesShortCircuit(o1) ==
    IF o1 # "ok"
      THEN <<CommandWord6(0, 0, 0, 0)>>
      ELSE <<CommandWord6(0, 0, 0, 0), CommandWord6(1, 0, 0, 0)>>

\* the writes activate() issues: the second one only when the first returned
ActivateWrites(o1) ==
    IF o1 = "raise"
      THEN <<CommandWord6(0, 0, 0, 0)>>
      ELSE <<CommandWord6(0, 0, 0, 0), CommandWord6(1, 0, 0, 0)>>

\* [mutant] the go-to command preceded by a bare go-to word
GoToWritesTwice(position, speed, force) ==
    <<CommandWord6(9, 0, 0, 0), CommandWord6(9, position, speed, force)>>

\* the writes go_to_position() issues for a valid position
GoToWrites(position, speed, force) ==
    <<CommandWord6(9, position, speed, force)>>

\* [mutant] stop sending the clear word
StopWritesClear == <<CommandWord6(0, 0, 0, 0)>>

\* the write stop() issues
StopWrites == <<CommandWord6(1, 0, 0, 0)>>

\* Rqgripper.activate(): two writes, the first one's exception propagating
RqActivateWrites(o1) ==
    IF o1 = "raise"
      THEN << <<0, 0, 0, 0, 0, 0>> >>
      ELSE << <<0, 0, 0, 0, 0, 0>>, <<1, 0, 0, 0, 0, 0>> >>

\* [mutant] the commented-out bare go-to write of goToPosition_once issued
RqGoToPositionOnceWritesArmed(position, speed, force) ==
    << <<9, 0, 0, 0, 0, 0>>, <<9, 0, 0, position, speed, force>> >>

\* Rqgripper.goToPosition_once(): one write, no argument check
RqGoToPositionOnceWrites(position, speed, force) ==
    << <<9, 0, 0, position, speed, force>> >>

\* Rqgripper.stop()
RqStopWrites == << <<1, 0, 0, 0, 0, 0>> >>

\* Rqgripper.__init__: write_params and read_params
RqWriteParams == <<1, 1000, 9, 3>>
RqReadParams == <<1, 2000, 9, 3>>

\* [mutant] 0 as the value of a failed read
GetPositionZeroSentinel(r) == IF r.raised THEN 0 ELSE r.position

\* get_position(): block[1][4], or the sentinel -1 when the read raised
GetPosition(r) == IF r.raised THEN -1 ELSE r.position

\* [mutant] the loop left once the reading reaches the target
ConvergedAtLeast(reading, position) == reading >= position

\* the loop condition of the wait loop: leave when the reading is the target
Converged(reading, position) == reading = position

\* `timeout and (time.time() - start_time) > timeout`
TimedOut(timeout, el) ==
    /\ Len(timeout) = 1
    /\ timeout[1] # 0
    /\ el > timeout[1]

\* [mutant] the shift off by one
GTOBitShift2(b) == (b \div 4) % 2

\* (byte_value >> 3) & 1
GTOBit(b) == (b \div 8) % 2

\* get_action_status(): the status bit, or -1 on a failed read or a byte
\* outside [0,255]
ActionStatus(r) ==
    IF r.raised THEN -1
    ELSE IF r.status < 0 \/ r.status > 255 THEN -1
    ELSE GTOBit(r.status)

Min(a, b) == IF a < b THEN a ELSE b

(* ------------------------------ state ---------------------------------- *)
VARIABLES
    pc,        \* where the caller is: "idle", "poll", "check", "sleep", "done"
    op,        \* the operation being (or last) executed
    args,      \* its arguments
    result,    \* local `result` of go_to_position
    block,     \* local `data`: the outcome of the call's latest register read
    elapsed,   \* time.time() - start_time, in ticks
    ret,       \* what the call handed to its caller: [kind, val]
    writes,    \* the register writes issued by this call, in order
    wouts,     \* the outcome of each of those writes
    reads,     \* number of register reads issued by this call
    readFailed,  \* whether one of those reads raised
    firstHit,  \* the number of the first read that returned the target, or 0
    cause,     \* why the call ended
    lastWriteFailure, \* what the latest go_to_position call whose write
                      \* failed handed to its caller
    phase,     \* "new", "constructed", "open" (usable), "exited"
    handle,    \* self._handle: TRUE once rm_create_robot_arm returned
    writeParams,  \* self._write_params
    readParams,   \* self._read_params
    disconnects,  \* number of rm_delete_robot_arm calls so far
    rqWrites,  \* the writes the matching Rqgripper method issues for the
               \* same call on the same channel
    interleaved  \* whether another caller's transaction fell between a
                 \* go-to write and the return of its call

\* the controller's fields and what is observed across calls
life == <<phase, handle, writeParams, readParams, disconnects>>

vars == <<pc, op, args, result, block, elapsed, ret, writes, wouts, reads,
          readFailed, firstHit, cause, lastWriteFailure, phase, handle,
          writeParams, readParams, disconnects, rqWrites, interleaved>>

NoArgs == [position |-> 0, speed |-> 0, force |-> 0, wait |-> FALSE,
           timeout |-> <<>>]
NoBlock == [raised |-> TRUE, status |-> 0, position |-> 0]
NoRet == [kind |-> "none", val |-> 0]
Returned(v) == [kind |-> "value", val |-> v]
Raised(e) == [kind |-> "raise", val |-> e]
\* a method that returns nothing
ReturnedNone == [kind |-> "None", val |-> 0]
\* Python's True and False as the integers they are
Bool(b) == IF b THEN 1 ELSE 0

\* rm_peripheral_read_write_params_t(1, 1000, 9, 3) and (1, 2000, 9, 3)
SetupWriteParams == <<1, 1000, 9, 3>>
SetupReadParams == <<1, 2000, 9, 3>>
NoParams == <<>>

\* no call made yet
NoCall ==
    /\ pc = "idle"
    /\ op = "none"
    /\ args = NoArgs
    /\ result = FALSE
    /\ block = NoBlock
    /\ elapsed = 0
    /\ ret = NoRet
    /\ writes = <<>>
    /\ wouts = <<>>
    /\ reads = 0
    /\ readFailed = FALSE
    /\ firstHit = 0
    /\ cause = "none"
    /\ lastWriteFailure = NoRet
    /\ rqWrites = <<>>
    /\ interleaved = FALSE

\* a controller whose constructor has returned
Init ==
    /\ NoCall
    /\ phase = "open"
    /\ handle = TRUE
    /\ writeParams = SetupWriteParams
    /\ readParams = SetupReadParams
    /\ disconnects = 0

\* [mutant] a call entered while the previous one is still in its loop
CanCallAnytime == TRUE

\* calls are made one after another: the previous one has returned
CanCall == pc \in {"idle", "done"}

\* the failed-write outcome a caller has on record after a call ends
NoteWriteFailure(c, rv) ==
    IF c \in {"write_failed", "write_raised"} THEN rv ELSE lastWriteFailure

\* a call that ends without entering the wait loop
Finish(o, a, w, wo, n, b, c, rv) ==
    /\ pc' = "done"
    /\ op' = o
    /\ args' = a
    /\ result' = FALSE
    /\ block' = b
    /\ elapsed' = 0
    /\ writes' = w
    /\ wouts' = wo
    /\ reads' = n
    /\ readFailed' = (n > 0 /\ b.raised)
    /\ firstHit' = 0
    /\ cause' = c
    /\ ret' = rv
    /\ lastWriteFailure' = IF o = "go_to_position" THEN NoteWriteFailure(c, rv)
                           ELSE lastWriteFailure

(* ----------------------------- activate -------------------------------- *)
Activate ==
    /\ CanCall
    /\ \E o1, o2 \in WriteOutcomes :
         LET w == ActivateWrites(o1)
             wo == IF Len(w) = 1 THEN <<o1>> ELSE <<o1, o2>>
             raised == \E i \in 1 .. Len(wo) : wo[i] = "raise"
         IN  /\ Finish("activate", NoArgs, w, wo, 0, NoBlock,
                       IF raised THEN "write_raised" ELSE "returned",
                       IF raised THEN Returned(Bool(FALSE))
                       ELSE Returned(Bool(ActivateResult(o1, o2))))
             /\ rqWrites' = RqActivateWrites(o1)
    /\ UNCHANGED <<life, interleaved>>

(* -------------------------- go_to_position ----------------------------- *)
GoToPosition ==
    /\ CanCall
    /\ \E p \in Positions, s \in Speeds, f \in Forces, w \in BOOLEAN,
          t \in Timeouts, o \in WriteOutcomes :
         LET a == [position |-> p, speed |-> s, force |-> f, wait |-> w,
                   timeout |-> t]
             cmd == GoToWrites(p, s, f)
         IN  /\ rqWrites' = IF w THEN <<>>
                            ELSE RqGoToPositionOnceWrites(p, s, f)
             /\ IF ~ValidPosition(p)
                  THEN Finish("go_to_position", a, <<>>, <<>>, 0, NoBlock,
                              "invalid", Raised("ValueError"))
                ELSE IF o = "raise"
                  THEN Finish("go_to_position", a, cmd, <<o>>, 0, NoBlock,
                              "write_raised", Returned(Bool(FALSE)))
                ELSE IF ~w
                  THEN Finish("go_to_position", a, cmd, <<o>>, 0, NoBlock,
                              IF o = "ok" THEN "returned" ELSE "write_failed",
                              Returned(Bool(WriteResult(o))))
                ELSE /\ pc' = "poll"
                     /\ op' = "go_to_position"
                     /\ args' = a
                     /\ result' = WriteResult(o)
                     /\ block' = NoBlock
                     /\ elapsed' = 0
                     /\ ret' = NoRet
                     /\ writes' = cmd
                     /\ wouts' = <<o>>
                     /\ reads' = 0
                     /\ readFailed' = FALSE
                     /\ firstHit' = 0
                     /\ cause' = "none"
                     /\ UNCHANGED lastWriteFailure
    /\ UNCHANGED <<life, interleaved>>

\* `while not self.get_position() == position`
Poll ==
    /\ pc = "poll"
    /\ \E r \in ReadOutcomes, d \in 0 .. MaxReadTime :
         LET v == GetPosition(r)
             n == Min(reads + 1, MaxReads)
             c == IF result THEN "converged" ELSE "write_failed"
         IN  /\ block' = r
             /\ reads' = n
             /\ readFailed' = (readFailed \/ r.raised)
             /\ firstHit' = IF firstHit = 0 /\ v = args.position
                              THEN n ELSE firstHit
             /\ elapsed' = Min(elapsed + d, MaxElapsed)
             /\ IF Converged(v, args.position)
                  THEN /\ pc' = "done"
                       /\ ret' = Returned(Bool(result))
                       /\ cause' = c
                       /\ lastWriteFailure' =
                              NoteWriteFailure(c, Returned(Bool(result)))
                  ELSE /\ pc' = "check"
                       /\ UNCHANGED <<ret, cause, lastWriteFailure>>
             /\ UNCHANGED <<op, args, result, writes, wouts>>
    /\ UNCHANGED <<life, rqWrites, interleaved>>

\* `if timeout and (time.time() - start_time) > timeout: raise TimeoutError`,
\* caught by the except clause, which returns False
Check ==
    /\ pc = "check"
    /\ IF TimedOut(args.timeout, elapsed)
         THEN /\ pc' = "done"
              /\ ret' = Returned(Bool(FALSE))
              /\ cause' = "timeout"
         ELSE /\ pc' = "sleep"
              /\ UNCHANGED <<ret, cause>>
    /\ UNCHANGED <<op, args, result, block, elapsed, writes, wouts, reads,
                   readFailed, firstHit, lastWriteFailure>>
    /\ UNCHANGED <<life, rqWrites, interleaved>>

\* time.sleep(0.1)
Sleep ==
    /\ pc = "sleep"
    /\ \E d \in 1 .. MaxSleep :
         elapsed' = Min(elapsed + d, MaxElapsed)
    /\ pc' = "poll"
    /\ UNCHANGED <<op, args, result, block, ret, writes, wouts, reads,
                   readFailed, firstHit, cause, lastWriteFailure>>
    /\ UNCHANGED <<life, rqWrites, interleaved>>

(* ------------------------- get_action_status --------------------------- *)
GetActionStatus ==
    /\ CanCall
    /\ \E r \in StatusReadOutcomes :
         LET v == ActionStatus(r)
         IN  Finish("get_action_status", NoArgs, <<>>, <<>>, 1, r,
                    IF r.raised THEN "read_raised"
                    ELSE IF v = -1 THEN "bad_status" ELSE "returned",
                    Returned(v))
    /\ rqWrites' = <<>>
    /\ UNCHANGED <<life, interleaved>>

(* ---------------------------- get_position ----------------------------- *)
\* get_position() called by the caller itself
CallGetPosition ==
    /\ CanCall
    /\ \E r \in ReadOutcomes :
         Finish("get_position", NoArgs, <<>>, <<>>, 1, r,
                IF r.raised THEN "read_raised" ELSE "returned",
                Returned(GetPosition(r)))
    /\ rqWrites' = <<>>
    /\ UNCHANGED <<life, interleaved>>

(* -------------------------------- stop --------------------------------- *)
Stop ==
    /\ CanCall
    /\ \E o \in WriteOutcomes :
         Finish("stop", NoArgs, StopWrites, <<o>>, 0, NoBlock,
                IF o = "raise" THEN "write_raised"
                ELSE IF o = "ok" THEN "returned" ELSE "write_failed",
                Returned(Bool(WriteResult(o))))
    /\ rqWrites' = RqStopWrites
    /\ UNCHANGED <<life, interleaved>>

Next ==
    \/ Activate
    \/ GoToPosition
    \/ Poll
    \/ Check
    \/ Sleep
    \/ GetActionStatus
    \/ CallGetPosition
    \/ Stop

Spec == Init /\ [][Next]_vars

(* ------------------- construction, with-block, close ------------------- *)
\* what rm_create_robot_arm, the Modbus setup calls and
\* rm_delete_robot_arm can do
CallOutcomes == {"ok", "raise"}

\* `if self._handle: self._arm.rm_delete_robot_arm()`
Disconnects(h, n) == IF h THEN Min(n + 1, MaxDisconnects) ELSE n

\* RQGripper(): _initialize_connection, then
\* _setup_communication_parameters; an exception of either leaves the
\* constructor and reaches the except clause of main
Construct ==
    /\ phase = "new"
    /\ \E c, u \in CallOutcomes :
         IF c = "raise"
           THEN /\ phase' = "exited"
                /\ UNCHANGED <<handle, writeParams, readParams>>
         ELSE IF u = "raise"
           THEN /\ phase' = "exited"
                /\ handle' = TRUE
                /\ UNCHANGED <<writeParams, readParams>>
         ELSE /\ phase' = "constructed"
              /\ handle' = TRUE
              /\ writeParams' = SetupWriteParams
              /\ readParams' = SetupReadParams
    /\ UNCHANGED <<pc, op, args, result, block, elapsed, ret, writes, wouts,
                   reads, readFailed, firstHit, cause, lastWriteFailure,
                   disconnects, rqWrites, interleaved>>

\* __enter__
Enter ==
    /\ phase = "constructed"
    /\ phase' = "open"
    /\ UNCHANGED <<pc, op, args, result, block, elapsed, ret, writes, wouts,
                   reads, readFailed, firstHit, cause, lastWriteFailure,
                   handle, writeParams, readParams, disconnects, rqWrites,
                   interleaved>>

\* close(): the disconnect call when a handle is held, its exception caught
Close ==
    /\ CanCall
    /\ \E o \in CallOutcomes :
         Finish("close", NoArgs, <<>>, <<>>, 0, NoBlock,
                IF handle /\ o = "raise" THEN "disconnect_raised"
                ELSE "returned",
                ReturnedNone)
    /\ disconnects' = Disconnects(handle, disconnects)
    /\ rqWrites' = <<>>
    /\ UNCHANGED <<phase, handle, writeParams, readParams, interleaved>>

\* __exit__ at the end of the with-block, reached normally or by an
\* exception raised in the block: close(), then main goes on or returns
ExitBlock ==
    /\ phase = "open"
    /\ CanCall
    /\ \E o \in CallOutcomes :
         Finish("__exit__", NoArgs, <<>>, <<>>, 0, NoBlock,
                IF handle /\ o = "raise" THEN "disconnect_raised"
                ELSE IF ret.kind = "raise" THEN "exception" ELSE "returned",
                ReturnedNone)
    /\ disconnects' = Disconnects(handle, disconnects)
    /\ phase' = "exited"
    /\ rqWrites' = <<>>
    /\ UNCHANGED <<handle, writeParams, readParams, interleaved>>

\* the body of the with-block runs until an exception leaves it
InBlock == phase = "open" /\ ret.kind # "raise"

\* nothing constructed yet
LifeInit ==
    /\ NoCall
    /\ phase = "new"
    /\ handle = FALSE
    /\ writeParams = NoParams
    /\ readParams = NoParams
    /\ disconnects = 0

LifeNext ==
    \/ Construct
    \/ Enter
    \/ ExitBlock
    \/ InBlock /\ Activate
    \/ InBlock /\ GoToPosition
    \/ InBlock /\ Poll
    \/ InBlock /\ Check
    \/ InBlock /\ Sleep
    \/ InBlock /\ GetActionStatus
    \/ InBlock /\ CallGetPosition
    \/ InBlock /\ Stop
    \/ InBlock /\ Close

LifeSpec == LifeInit /\ [][LifeNext]_vars

(* ---------------------------- second caller ---------------------------- *)
\* another thread calls stop() or get_position() on the same controller:
\* one register transaction, issued whenever that thread runs
OtherCaller ==
    /\ \E o \in {"stop", "get_position"} :
         interleaved' = (interleaved \/ pc \in {"poll", "check", "sleep"})
    /\ UNCHANGED <<pc, op, args, result, block, elapsed, ret, writes, wouts,
                   reads, readFailed, firstHit, cause, lastWriteFailure,
                   life, rqWrites>>

ConcNext ==
    \/ Next
    \/ OtherCaller

ConcSpec == Init /\ [][ConcNext]_vars

\* the caller's thread keeps running: a step of the wait loop that can be
\* taken is taken
FairSpec == Spec /\ WF_vars(Poll) /\ WF_vars(Check) /\ WF_vars(Sleep)

(* ------------------------------ claims --------------------------------- *)
InRange(p) == p \in 0 .. 255
Ended(o) == pc = "done" /\ op = o
AllOk(wo) == \A i \in 1 .. Len(wo) : wo[i] = "ok"

\* C1 (as stated): activate() issues exactly the two writes [0,0,0,0,0,0]
\* and [1,0,0,0,0,0], in that order, whatever the first write does, and
\* returns true iff both writes reported success.
C1_ActivateAlwaysTwoWrites ==
    Ended("activate") =>
        /\ writes = << <<0, 0, 0, 0, 0, 0>>, <<1, 0, 0, 0, 0, 0>> >>
        /\ (ret = Returned(1)) <=> (Len(wouts) = 2 /\ AllOk(wouts))

\* C1 (amended): activate() issues [0,0,0,0,0,0] first and then, unless the
\* first write raised, [1,0,0,0,0,0], and nothing else; the second write is
\* issued both when the first reported success and when it reported failure;
\* the call returns true iff both writes reported success, false otherwise.
C1_ActivateWrites ==
    Ended("activate") =>
        /\ wouts[1] # "raise" =>
               writes = << <<0, 0, 0, 0, 0, 0>>, <<1, 0, 0, 0, 0, 0>> >>
        /\ wouts[1] = "raise" => writes = << <<0, 0, 0, 0, 0, 0>> >>
        /\ (ret = Returned(1)) <=> (Len(wouts) = 2 /\ AllOk(wouts))
        /\ ret \in {Returned(0), Returned(1)}
        /\ reads = 0

\* C1 witness: the first write reported failure and the second was issued
C1_Witness ==
    /\ Ended("activate")
    /\ wouts = <<"fail", "ok">>
    /\ Len(writes) = 2
    /\ ret = Returned(0)

\* C2: a position outside [0,255] makes go_to_position raise ValueError
\* with no register write and no register read, whatever the other
\* arguments are.
C2_InvalidPositionNoTransaction ==
    (op = "go_to_position" /\ ~InRange(args.position)) =>
        /\ pc = "done"
        /\ ret = Raised("ValueError")
        /\ writes = <<>>
        /\ reads = 0

\* C2 witness: a rejected call that asked to wait with a timeout
C2_Witness ==
    /\ Ended("go_to_position")
    /\ args.position = 256
    /\ args.wait
    /\ args.timeout = <<1>>
    /\ args.speed = 255
    /\ ret.kind = "raise"

\* C3: with wait=false and a position p in [0,255], go_to_position issues
\* the single write [9,0,0,p,speed,force], no read, and returns whether
\* that write succeeded.
C3_NoWaitSingleWrite ==
    (Ended("go_to_position") /\ InRange(args.position) /\ ~args.wait) =>
        /\ writes = << <<9, 0, 0, args.position, args.speed, args.force>> >>
        /\ reads = 0
        /\ ret = Returned(IF wouts = <<"ok">> THEN 1 ELSE 0)

\* C3 witness: a non-waiting move with distinct speed and force that
\* succeeded
C3_Witness ==
    /\ Ended("go_to_position")
    /\ ~args.wait
    /\ args.position = 100
    /\ args.speed = 255
    /\ args.force = 0
    /\ ret = Returned(1)


\* C4 (as stated): every go_to_position call that enters the wait loop
\* eventually returns, for every timeout argument, None included.
C4_WaitTerminates ==
    (op = "go_to_position" /\ pc = "poll") ~> (pc = "done")

\* C5 (as stated): for every caller-supplied timeout t >= 0, a poll that
\* missed the target when more than t has elapsed ends the call with the
\* timeout failure, and the timeout is not reported while at most t has
\* elapsed.
C5_TimeoutFires ==
    [][/\ (/\ pc = "check"
           /\ Len(args.timeout) = 1
           /\ elapsed > args.timeout[1])
          => (pc' = "done" /\ cause' = "timeout" /\ ret' = Returned(0))
       /\ (cause' = "timeout")
          => (Len(args'.timeout) = 1 /\ elapsed' > args'.timeout[1])]_vars

\* C6: a go_to_position call with a valid position has issued exactly one
\* register write, the go-to command, from the moment it wrote until it
\* returned, however it ends.
C6_SingleWrite ==
    (op = "go_to_position" /\ InRange(args.position)) =>
        /\ Len(writes) = 1
        /\ writes[1] = <<9, 0, 0, args.position, args.speed, args.force>>
        /\ Len(wouts) = 1

\* C6 witness: a call that timed out after a failed read
C6_Witness ==
    /\ Ended("go_to_position")
    /\ cause = "timeout"
    /\ readFailed
    /\ reads >= 2

\* C7: the wait ends without a timeout exactly when a poll reads the target:
\* a poll that reads anything else (a larger value included) leaves the call
\* in the loop, a return from the loop follows a read of the target, and
\* when the write succeeded the call returns true after as many reads as it
\* took to read the target first.
C7_ExactConvergence ==
    (op = "go_to_position" /\ InRange(args.position) /\ args.wait) =>
        /\ (pc \in {"check", "sleep"}) =>
               (block.raised \/ block.position # args.position)
        /\ (pc \in {"poll", "check", "sleep"}) => firstHit = 0
        /\ (pc = "done" /\ cause # "timeout" /\ wouts # <<"raise">>) =>
               /\ ~block.raised
               /\ block.position = args.position
               /\ firstHit = reads
        /\ (pc = "done" /\ firstHit > 0 /\ wouts = <<"ok">>) =>
               (ret = Returned(1) /\ reads = firstHit)

\* C7 witness: the third poll is the first to read the target, after a poll
\* that read a larger value, and the call returns true
C7_Witness ==
    /\ Ended("go_to_position")
    /\ args.wait
    /\ args.position = 100
    /\ args.timeout = <<2>>
    /\ firstHit = 3
    /\ reads = 3
    /\ ret = Returned(1)

\* C8 (as stated): a go_to_position(wait=true) call during which the write
\* or any read of the wait loop failed reports a failure.
C8_AnyFailureReported ==
    (Ended("go_to_position") /\ InRange(args.position) /\ args.wait
       /\ (~AllOk(wouts) \/ readFailed)) => ret # Returned(1)

\* C9 (as stated): what go_to_position hands its caller on a timeout
\* differs from what it hands its caller when the write failed.
C9_TimeoutDistinct ==
    (Ended("go_to_position") /\ cause = "timeout"
       /\ lastWriteFailure # NoRet) => ret # lastWriteFailure

\* C10: for a status byte b in [0,255], get_action_status returns bit 3 of
\* b (1 if b mod 16 >= 8, else 0); the call issues one read and no write.
C10_StatusBit ==
    Ended("get_action_status") =>
        /\ reads = 1
        /\ writes = <<>>
        /\ (~block.raised /\ InRange(block.status)) =>
               ret = Returned(IF block.status % 16 >= 8 THEN 1 ELSE 0)

\* C10 witness: status byte 8 gives 1
C10_Witness ==
    /\ Ended("get_action_status")
    /\ ~block.raised
    /\ block.status = 8
    /\ ret = Returned(1)

\* C11 (as stated): a status byte outside [0,255] gives an outcome that is
\* neither 0 nor 1 and that differs from the outcome of a failed read, such
\* as the one the preceding get_action_status call gave.
C11_ProtocolViolationDistinct ==
    [][(op' = "get_action_status" /\ pc' = "done" /\ cause' = "bad_status")
          => /\ ret'.val \notin {0, 1}
             /\ (Ended("get_action_status") /\ cause = "read_raised")
                   => ret' # ret]_vars

\* C15: stop() issues the single write [1,0,0,0,0,0], no read, and returns
\* whether that write succeeded, whatever was called before.
C15_StopSingleWrite ==
    Ended("stop") =>
        /\ writes = << <<1, 0, 0, 0, 0, 0>> >>
        /\ reads = 0
        /\ ret = Returned(IF wouts = <<"ok">> THEN 1 ELSE 0)

\* C15 witness: a stop whose write reported failure
C15_Witness ==
    /\ Ended("stop")
    /\ wouts = <<"fail">>
    /\ Len(writes) = 1
    /\ ret = Returned(0)

\* C17: get_position returns block[1][4] of a successful read and -1 when
\* the read fails, and a waiting go_to_position that returns true has last
\* read, successfully, its target: a failed read never ends the wait.
C17_SentinelNeverConverges ==
    /\ Ended("get_position") =>
          /\ reads = 1
          /\ ret = Returned(IF block.raised THEN -1 ELSE block.position)
    /\ (op = "go_to_position" /\ args.wait /\ InRange(args.position)) =>
          /\ (pc = "done" /\ cause \in {"converged", "write_failed"}) =>
                (~block.raised /\ block.position = args.position)
          /\ (pc \in {"check", "sleep"} /\ block.raised) => ret = NoRet
          /\ ret = Returned(1) => (~block.raised /\ reads >= 1)

\* C17 witness: a waiting move to 0 that saw a failed read and then
\* converged
C17_Witness ==
    /\ Ended("go_to_position")
    /\ args.wait
    /\ args.position = 0
    /\ readFailed
    /\ ~block.raised
    /\ ret = Returned(1)

\* C18: go_to_position returns true iff its write reported success and,
\* when waiting, the last poll read the target; a write that reports
\* failure still enters the loop and gives false after convergence; a write
\* that raises gives false with no read.
C18_ReturnValue ==
    (op = "go_to_position" /\ InRange(args.position)) =>
        /\ pc = "done" =>
              ((ret = Returned(1)) <=>
                   /\ wouts = <<"ok">>
                   /\ args.wait =>
                         (reads >= 1 /\ ~block.raised
                            /\ block.position = args.position))
        /\ pc = "done" => ret \in {Returned(0), Returned(1)}
        /\ (wouts = <<"fail">> /\ args.wait /\ pc = "done") =>
              (reads >= 1 /\ ret = Returned(0))
        /\ wouts = <<"raise">> =>
              (pc = "done" /\ reads = 0 /\ ret = Returned(0))

\* C18 witness: the write reported failure, the loop ran and converged, and
\* the call returned false
C18_Witness ==
    /\ Ended("go_to_position")
    /\ args.wait
    /\ wouts = <<"fail">>
    /\ cause = "write_failed"
    /\ reads = 2
    /\ block.position = args.position
    /\ ret = Returned(0)

\* C19: for activate, stop and a non-waiting go-to with an in-range
\* position, RQGripper issues the write words Rqgripper issues for the same
\* call, and both use write parameters (1,1000,9,3) and read parameters
\* (1,2000,9,3).
C19_SameTraffic ==
    /\ phase = "open" =>
          /\ writeParams = <<1, 1000, 9, 3>>
          /\ readParams = <<1, 2000, 9, 3>>
          /\ writeParams = RqWriteParams
          /\ readParams = RqReadParams
    /\ (pc = "done"
          /\ \/ op \in {"activate", "stop"}
             \/ op = "go_to_position" /\ InRange(args.position) /\ ~args.wait)
       => writes = rqWrites

\* C19 witness: a non-waiting go-to issued by both classes
C19_Witness ==
    /\ Ended("go_to_position")
    /\ ~args.wait
    /\ args.position = 255
    /\ args.speed = 255
    /\ rqWrites = << <<9, 0, 0, 255, 255, 0>> >>
    /\ writes = rqWrites

\* C12 (as stated): however often close() is called on a connected
\* controller, no error reaches the caller and at most one disconnect call
\* is issued in total.
C12_CloseIdempotent ==
    /\ op = "close" => ret.kind # "raise"
    /\ disconnects <= 1

\* C13 (as stated): once main has left the with statement, by the normal
\* end of the block, by an exception raised in it, or by a failed setup
\* after the connection was created, a connection that was created has been
\* released exactly once.
C13_ReleasedOnce ==
    (phase = "exited" /\ handle) => disconnects = 1

\* C14 (as stated): when a register write, a register read or the
\* disconnect call raised during a call of activate, go_to_position (valid
\* position), get_position, get_action_status, stop or close, the call does
\* not raise and returns its failure result: false, the sentinel -1, or
\* nothing for close.
C14_NoExceptionEscapes ==
    (pc = "done"
       /\ ((\E i \in 1 .. Len(wouts) : wouts[i] = "raise")
             \/ readFailed \/ cause = "disconnect_raised")) =>
        /\ ret.kind # "raise"
        /\ op \in {"activate", "go_to_position", "stop"} => ret = Returned(0)
        /\ op \in {"get_position", "get_action_status"} => ret = Returned(-1)
        /\ op = "close" => ret = ReturnedNone

\* C16 (as stated): also with a second caller on the same controller, no
\* register transaction of another operation falls between the go-to write
\* of a waiting go_to_position and the return of that call.
C16_OneCommandInFlight == ~interleaved

\* C16 (amended): the caller of a waiting go_to_position issues nothing
\* but the reads of its own wait loop between the go-to write and the
\* return: each step in that window leaves the operation, its arguments and
\* its writes as they are and issues at most one read; a transaction that
\* does fall into the window is one of a second caller, which leaves the
\* first caller where it is.
C16_SingleCallerExclusive ==
    [][(pc \in {"poll", "check", "sleep"}) =>
          /\ op' = op
          /\ args' = args
          /\ writes' = writes
          /\ reads' \in {reads, Min(reads + 1, MaxReads)}
          /\ interleaved' # interleaved => (pc' = pc /\ reads' = reads)]_vars

\* C16 witness: a waiting call in its loop, two reads issued
C16_Witness ==
    /\ op = "go_to_position"
    /\ pc = "sleep"
    /\ reads = 2
    /\ Len(writes) = 1
    /\ ~interleaved

====
